---- MODULE Spec2Model ----
(***************************************************************************)
(* Model of src/src/query_sink.rs: QuerySink, the IWbemObjectSink that     *)
(* receives query results through Indicate calls on threads of the WMI     *)
(* engine and republishes them on a futures::channel::mpsc unbounded       *)
(* channel, closed by SetStatus(WBEM_STATUS_COMPLETE).                     *)
(*                                                                         *)
(* One Indicate call is a sequence of atomic steps of its thread: the      *)
(* entry (count test, sender clone), then per slot the null test with the  *)
(* AddRef of IWbemClassWrapper::clone, then the unbounded_send, and at the *)
(* end the return, which drops the cloned sender.  Steps of different      *)
(* threads and of the receiver interleave freely.                          *)
(***************************************************************************)
EXTENDS Integers, Sequences, FiniteSets, TLC

----------------------------------------------------------------------------
(* Bounds of the model *)

NumThreads == 2
NumObjs == 2
(* Budget of the foreign engine: an Indicate call costs one unit per slot
   (at least one), a SetStatus call costs one unit.  MaxWork bounds the
   runs with concurrent engine threads, MaxSeqWork the runs in which the
   engine calls from one thread. *)
MaxWork == 2
MaxSeqWork == 3
(* Budget of the runs in which calls race with each other, with the close
   and with the receiver's drop *)
MaxRaceWork == 3
(* Budget of the runs in which the engine gives up its own references and
   the receiver destroys items it has received *)
MaxLifeWork == 2

(* Program constants *)

WBEM_NO_ERROR == 0
E_POINTER == -2147467261
WBEM_STATUS_COMPLETE == 0
InitialRefcount == 1

Threads == 1..NumThreads
Objs == 1..NumObjs
NULL == 0
Pointers == {NULL} \cup Objs

(* c_long values tried for lFlags: the completion flag and another one *)
Flags == {WBEM_STATUS_COMPLETE, WBEM_STATUS_COMPLETE + 2}
(* values tried for the parameters SetStatus ignores *)
HResults == {WBEM_NO_ERROR, E_POINTER}
BStrs == {"", "status"}

(* The caller's array: lObjectCount slots when that is positive.  For a
   count <= 0 the array is whatever the pointer refers to; one valid slot
   stands for that. *)
Arrays(n) == IF n > 0 THEN [1..n -> Pointers] ELSE {<<1>>}

VARIABLES
    queue,        \* the channel's message queue, oldest first
    isOpen,       \* the channel's is_open state bit
    numSenders,   \* live UnboundedSender handles (the sink's and the clones)
    sinkAlive,    \* the COM object still has a reference
    refcount,     \* COM reference count of each IWbemClassObject
    calls,        \* history: every Indicate call, in entry order, with what
                  \*   it did (slots cloned, slots sent) and what it returned
    cur,          \* per thread: index in calls of the Indicate it is running,
                  \*   0 when it is in none
    pc,           \* per thread: "idle", "loop" or "send"
    i,            \* per thread: the loop variable of Indicate
    lastStatus,   \* history: lFlags and HRESULT of the last SetStatus call,
                  \*   and what had happened by then: the Indicate calls
                  \*   made, the messages received, the channel's state
    numComplete,  \* history: number of SetStatus calls that passed
                  \*   WBEM_STATUS_COMPLETE
    work,         \* history: units of the engine's budget used so far
    consumer,     \* receiver: "ready", "awaiting", "ended" or "dropped"
    observed,     \* history: what the receiver got from next(), in order
    sent,         \* history: every message a send enqueued, in order
    engineRef,    \* per object: the engine still holds its own reference
    gone          \* indices in observed of the items the receiver destroyed

thr == <<cur, pc, i>>
stat == <<lastStatus, numComplete>>
rx == <<consumer, observed>>
env == <<engineRef, gone>>
vars == <<queue, isOpen, numSenders, sinkAlive, refcount, calls, cur, pc, i,
          lastStatus, numComplete, work, consumer, observed, sent,
          engineRef, gone>>

----------------------------------------------------------------------------
(* Pure helpers *)

lObjectCount(t) == calls[cur[t]].count
apObjArray(t) == calls[cur[t]].arr

Cost(n) == IF n > 0 THEN n ELSE 1

(* Engine threads are interchangeable: a call runs on the lowest-numbered
   thread that is not inside a call. *)
IdleThreads == {t \in Threads : pc[t] = "idle"}
Dispatch(t) == t \in IdleThreads /\ \A u \in IdleThreads : t <= u

(* Ok(wbemClassObject): the message; call and slot identify the delivery *)
Ok(o, c, s) == [ok |-> TRUE, obj |-> o, call |-> c, slot |-> s]

(* IWbemClassWrapper::clone: AddRef on the object *)
AddRef(rc, o) == [rc EXCEPT ![o] = @ + 1]
(* Drop of an IWbemClassWrapper: Release on the object *)
Release(rc, o) == [rc EXCEPT ![o] = @ - 1]

RECURSIVE ReleaseAll(_, _)
ReleaseAll(rc, q) ==
    IF q = <<>> THEN rc ELSE ReleaseAll(Release(rc, Head(q).obj), Tail(q))

(* The queue after a successful unbounded_send *)
(* Faulty variants: the message is put at the front; a channel holding
   one message that loses what is sent while it is full *)
Enqueue_lifo(q, m) == <<m>> \o q
Enqueue_bounded(q, m) == IF Len(q) >= 1 THEN q ELSE Append(q, m)
Enqueue(q, m) == Append(q, m)

(* Drop of an UnboundedSender: the last one closes the channel *)
OpenAfterSenderDrop(open, n) == open /\ n > 1

(* lObjectCount <= 0, line 60 *)
(* Faulty variant: only a negative count returns early *)
NothingToDeliver_negative(n) == n < 0
NothingToDeliver(n) == n <= 0

(* lFlags == WBEM_STATUS_COMPLETE, line 106 *)
(* Faulty variants: the flag compared with another value; any flag >= it *)
IsComplete_never(lFlags) == lFlags = WBEM_STATUS_COMPLETE + 1
IsComplete_any(lFlags) == lFlags >= WBEM_STATUS_COMPLETE
IsComplete(lFlags) == lFlags = WBEM_STATUS_COMPLETE

(* self.sender.close_channel(), line 108: the channel's state afterwards *)
(* Faulty variant: closing a closed channel reopens it *)
close_channel_toggle(open) == ~open
close_channel(open) == FALSE

----------------------------------------------------------------------------
Init ==
    /\ queue = <<>>
    /\ isOpen = TRUE
    /\ numSenders = 1
    /\ sinkAlive = TRUE
    /\ refcount = [o \in Objs |-> InitialRefcount]
    /\ calls = <<>>
    /\ cur = [t \in Threads |-> 0]
    /\ pc = [t \in Threads |-> "idle"]
    /\ i = [t \in Threads |-> 0]
    /\ lastStatus = <<>>
    /\ numComplete = 0
    /\ work = 0
    /\ consumer = "ready"
    /\ observed = <<>>
    /\ sent = <<>>
    /\ engineRef = [o \in Objs |-> TRUE]
    /\ gone = {}

----------------------------------------------------------------------------
(* QuerySink::indicate *)

NewCall(t, n, a) ==
    [t |-> t, count |-> n, arr |-> a, open |-> isOpen, rc |-> refcount,
     done |-> FALSE, ret |-> WBEM_NO_ERROR, cloned |-> <<>>, tried |-> <<>>]

(* Faulty variant: the loop starts at slot 1 *)
indicate_enter_from1(t, n, a) ==
    /\ UNCHANGED env
    /\ sinkAlive
    /\ Dispatch(t)
    /\ work' = work + Cost(n)
    /\ IF NothingToDeliver(n)
         THEN /\ calls' = Append(calls, [NewCall(t, n, a) EXCEPT !.done = TRUE])
              /\ UNCHANGED <<cur, pc, i, numSenders>>
         ELSE /\ calls' = Append(calls, NewCall(t, n, a))
              /\ cur' = [cur EXCEPT ![t] = Len(calls) + 1]
              /\ pc' = [pc EXCEPT ![t] = "loop"]
              /\ i' = [i EXCEPT ![t] = 1]
              /\ numSenders' = numSenders + 1
    /\ UNCHANGED <<queue, isOpen, sinkAlive, refcount, stat, rx, sent>>

(* Entry: lines 58-65.  count <= 0 returns at once; otherwise the sender
   is cloned and the loop starts at i = 0. *)
indicate_enter(t, n, a) ==
    /\ UNCHANGED env
    /\ sinkAlive
    /\ Dispatch(t)
    /\ work' = work + Cost(n)
    /\ IF NothingToDeliver(n)
         THEN /\ calls' = Append(calls, [NewCall(t, n, a) EXCEPT !.done = TRUE])
              /\ UNCHANGED <<cur, pc, i, numSenders>>
         ELSE /\ calls' = Append(calls, NewCall(t, n, a))
              /\ cur' = [cur EXCEPT ![t] = Len(calls) + 1]
              /\ pc' = [pc EXCEPT ![t] = "loop"]
              /\ i' = [i EXCEPT ![t] = 0]
              /\ numSenders' = numSenders + 1
    /\ UNCHANGED <<queue, isOpen, sinkAlive, refcount, stat, rx, sent>>

(* Faulty variant: the call's clone of the sender is kept when it returns *)
indicate_return_keep_tx(t, hr) ==
    /\ calls' = [calls EXCEPT ![cur[t]].done = TRUE, ![cur[t]].ret = hr]
    /\ pc' = [pc EXCEPT ![t] = "idle"]
    /\ cur' = [cur EXCEPT ![t] = 0]
    /\ i' = [i EXCEPT ![t] = 0]
    /\ UNCHANGED <<numSenders, isOpen, refcount>>

(* The return of a call that cloned the sender: tx is dropped *)
indicate_return(t, hr) ==
    /\ calls' = [calls EXCEPT ![cur[t]].done = TRUE, ![cur[t]].ret = hr]
    /\ pc' = [pc EXCEPT ![t] = "idle"]
    /\ cur' = [cur EXCEPT ![t] = 0]
    /\ i' = [i EXCEPT ![t] = 0]
    /\ numSenders' = numSenders - 1
    /\ isOpen' = OpenAfterSenderDrop(isOpen, numSenders)
    /\ UNCHANGED refcount

(* Faulty variant: an empty slot is skipped instead of ending the call *)
indicate_loop_skip(t) ==
    /\ UNCHANGED env
    /\ pc[t] = "loop"
    /\ IF i[t] >= lObjectCount(t)
         THEN /\ indicate_return(t, WBEM_NO_ERROR)
              /\ UNCHANGED <<queue, sinkAlive, stat, work, rx, sent>>
         ELSE LET p_el == apObjArray(t)[i[t] + 1] IN
              IF p_el = NULL
                THEN /\ i' = [i EXCEPT ![t] = @ + 1]
                     /\ UNCHANGED <<queue, isOpen, numSenders, sinkAlive, refcount,
                                    calls, cur, pc, stat, work, rx, sent>>
                ELSE /\ refcount' = AddRef(refcount, p_el)
                     /\ calls' = [calls EXCEPT ![cur[t]].cloned = Append(@, i[t])]
                     /\ pc' = [pc EXCEPT ![t] = "send"]
                     /\ UNCHANGED <<cur, i, numSenders, isOpen, queue, sinkAlive,
                                    stat, work, rx, sent>>

(* Faulty variant: the slot is wrapped without AddRef *)
indicate_loop_noaddref(t) ==
    /\ UNCHANGED env
    /\ pc[t] = "loop"
    /\ IF i[t] >= lObjectCount(t)
         THEN indicate_return(t, WBEM_NO_ERROR)
         ELSE LET p_el == apObjArray(t)[i[t] + 1] IN
              IF p_el = NULL
                THEN indicate_return(t, E_POINTER)
                ELSE /\ calls' = [calls EXCEPT ![cur[t]].cloned = Append(@, i[t])]
                     /\ pc' = [pc EXCEPT ![t] = "send"]
                     /\ UNCHANGED <<refcount, cur, i, numSenders, isOpen>>
    /\ UNCHANGED <<queue, sinkAlive, stat, work, rx, sent>>

(* Faulty variant: an empty slot is also reported to the receiver, as an
   error element put in the channel *)
indicate_loop_senderr(t) ==
    /\ UNCHANGED env
    /\ pc[t] = "loop"
    /\ IF i[t] >= lObjectCount(t)
         THEN /\ indicate_return(t, WBEM_NO_ERROR)
              /\ UNCHANGED <<queue, sent>>
         ELSE LET p_el == apObjArray(t)[i[t] + 1] IN
              IF p_el = NULL
                THEN LET err == [ok |-> FALSE, obj |-> NULL,
                                 call |-> cur[t], slot |-> i[t]]
                     IN  /\ indicate_return(t, E_POINTER)
                         /\ IF isOpen
                              THEN /\ queue' = Enqueue(queue, err)
                                   /\ sent' = Append(sent, err)
                              ELSE UNCHANGED <<queue, sent>>
                ELSE /\ refcount' = AddRef(refcount, p_el)
                     /\ calls' = [calls EXCEPT ![cur[t]].cloned = Append(@, i[t])]
                     /\ pc' = [pc EXCEPT ![t] = "send"]
                     /\ UNCHANGED <<cur, i, numSenders, isOpen, queue, sent>>
    /\ UNCHANGED <<sinkAlive, stat, work, rx>>

(* Loop head: lines 71-82 and 91.  End of the range returns WBEM_NO_ERROR,
   a null slot returns E_POINTER, any other slot is cloned (AddRef). *)
indicate_loop(t) ==
    /\ UNCHANGED env
    /\ pc[t] = "loop"
    /\ IF i[t] >= lObjectCount(t)
         THEN indicate_return(t, WBEM_NO_ERROR)
         ELSE LET p_el == apObjArray(t)[i[t] + 1] IN
              IF p_el = NULL
                THEN indicate_return(t, E_POINTER)
                ELSE /\ refcount' = AddRef(refcount, p_el)
                     /\ calls' = [calls EXCEPT ![cur[t]].cloned = Append(@, i[t])]
                     /\ pc' = [pc EXCEPT ![t] = "send"]
                     /\ UNCHANGED <<cur, i, numSenders, isOpen>>
    /\ UNCHANGED <<queue, sinkAlive, stat, work, rx, sent>>

(* Faulty variant: a send fails only when the receiver has been dropped *)
indicate_send_unless_dropped(t) ==
    /\ UNCHANGED env
    /\ pc[t] = "send"
    /\ LET p_el == apObjArray(t)[i[t] + 1]
           msg == Ok(p_el, cur[t], i[t])
       IN  IF consumer # "dropped"
             THEN /\ queue' = Enqueue(queue, msg)
                  /\ sent' = Append(sent, msg)
                  /\ UNCHANGED refcount
             ELSE /\ refcount' = Release(refcount, p_el)
                  /\ UNCHANGED <<queue, sent>>
    /\ calls' = [calls EXCEPT ![cur[t]].tried = Append(@, i[t])]
    /\ i' = [i EXCEPT ![t] = @ + 1]
    /\ pc' = [pc EXCEPT ![t] = "loop"]
    /\ UNCHANGED <<isOpen, numSenders, sinkAlive, cur, stat, work, rx>>

(* Faulty variant: the message of a failed send is not dropped *)
indicate_send_leak(t) ==
    /\ UNCHANGED env
    /\ pc[t] = "send"
    /\ LET p_el == apObjArray(t)[i[t] + 1]
           msg == Ok(p_el, cur[t], i[t])
       IN  IF isOpen
             THEN /\ queue' = Enqueue(queue, msg)
                  /\ sent' = Append(sent, msg)
                  /\ UNCHANGED refcount
             ELSE UNCHANGED <<refcount, queue, sent>>
    /\ calls' = [calls EXCEPT ![cur[t]].tried = Append(@, i[t])]
    /\ i' = [i EXCEPT ![t] = @ + 1]
    /\ pc' = [pc EXCEPT ![t] = "loop"]
    /\ UNCHANGED <<isOpen, numSenders, sinkAlive, cur, stat, work, rx>>

(* Faulty variant: a send into a channel that holds one message waits until
   the receiver has taken it *)
indicate_send_blocking(t) ==
    /\ UNCHANGED env
    /\ pc[t] = "send"
    /\ isOpen => queue = <<>>
    /\ LET p_el == apObjArray(t)[i[t] + 1]
           msg == Ok(p_el, cur[t], i[t])
       IN  IF isOpen
             THEN /\ queue' = Enqueue(queue, msg)
                  /\ sent' = Append(sent, msg)
                  /\ UNCHANGED refcount
             ELSE /\ refcount' = Release(refcount, p_el)
                  /\ UNCHANGED <<queue, sent>>
    /\ calls' = [calls EXCEPT ![cur[t]].tried = Append(@, i[t])]
    /\ i' = [i EXCEPT ![t] = @ + 1]
    /\ pc' = [pc EXCEPT ![t] = "loop"]
    /\ UNCHANGED <<isOpen, numSenders, sinkAlive, cur, stat, work, rx>>

(* Faulty variant: a failed send ends the loop; the call returns
   WBEM_NO_ERROR without looking at the remaining slots *)
indicate_send_break(t) ==
    /\ UNCHANGED env
    /\ pc[t] = "send"
    /\ LET p_el == apObjArray(t)[i[t] + 1]
           msg == Ok(p_el, cur[t], i[t])
       IN  IF isOpen
             THEN /\ queue' = Enqueue(queue, msg)
                  /\ sent' = Append(sent, msg)
                  /\ calls' = [calls EXCEPT ![cur[t]].tried = Append(@, i[t])]
                  /\ i' = [i EXCEPT ![t] = @ + 1]
                  /\ pc' = [pc EXCEPT ![t] = "loop"]
                  /\ UNCHANGED <<refcount, isOpen, numSenders, cur>>
             ELSE /\ refcount' = Release(refcount, p_el)
                  /\ calls' = [calls EXCEPT ![cur[t]].tried = Append(@, i[t]),
                                            ![cur[t]].done = TRUE,
                                            ![cur[t]].ret = WBEM_NO_ERROR]
                  /\ pc' = [pc EXCEPT ![t] = "idle"]
                  /\ cur' = [cur EXCEPT ![t] = 0]
                  /\ i' = [i EXCEPT ![t] = 0]
                  /\ numSenders' = numSenders - 1
                  /\ isOpen' = OpenAfterSenderDrop(isOpen, numSenders)
                  /\ UNCHANGED <<queue, sent>>
    /\ UNCHANGED <<sinkAlive, stat, work, rx>>

(* Faulty variant: whether the channel is open is looked at once, when the
   call is entered *)
indicate_send_stale(t) ==
    /\ UNCHANGED env
    /\ pc[t] = "send"
    /\ LET p_el == apObjArray(t)[i[t] + 1]
           msg == Ok(p_el, cur[t], i[t])
       IN  IF calls[cur[t]].open
             THEN /\ queue' = Enqueue(queue, msg)
                  /\ sent' = Append(sent, msg)
                  /\ UNCHANGED refcount
             ELSE /\ refcount' = Release(refcount, p_el)
                  /\ UNCHANGED <<queue, sent>>
    /\ calls' = [calls EXCEPT ![cur[t]].tried = Append(@, i[t])]
    /\ i' = [i EXCEPT ![t] = @ + 1]
    /\ pc' = [pc EXCEPT ![t] = "loop"]
    /\ UNCHANGED <<isOpen, numSenders, sinkAlive, cur, stat, work, rx>>

(* Faulty variant: a failed send ends the call with an error status *)
indicate_send_abort(t) ==
    /\ UNCHANGED env
    /\ pc[t] = "send"
    /\ LET p_el == apObjArray(t)[i[t] + 1]
           msg == Ok(p_el, cur[t], i[t])
       IN  IF isOpen
             THEN /\ queue' = Enqueue(queue, msg)
                  /\ sent' = Append(sent, msg)
                  /\ calls' = [calls EXCEPT ![cur[t]].tried = Append(@, i[t])]
                  /\ i' = [i EXCEPT ![t] = @ + 1]
                  /\ pc' = [pc EXCEPT ![t] = "loop"]
                  /\ UNCHANGED <<refcount, isOpen, numSenders, cur>>
             ELSE /\ refcount' = Release(refcount, p_el)
                  /\ calls' = [calls EXCEPT ![cur[t]].tried = Append(@, i[t]),
                                            ![cur[t]].done = TRUE,
                                            ![cur[t]].ret = E_POINTER]
                  /\ pc' = [pc EXCEPT ![t] = "idle"]
                  /\ cur' = [cur EXCEPT ![t] = 0]
                  /\ i' = [i EXCEPT ![t] = 0]
                  /\ numSenders' = numSenders - 1
                  /\ isOpen' = OpenAfterSenderDrop(isOpen, numSenders)
                  /\ UNCHANGED <<queue, sent>>
    /\ UNCHANGED <<sinkAlive, stat, work, rx>>

(* Faulty variant: a send that overlaps another thread's send loses its message *)
indicate_send_racy(t) ==
    /\ UNCHANGED env
    /\ pc[t] = "send"
    /\ LET p_el == apObjArray(t)[i[t] + 1]
           msg == Ok(p_el, cur[t], i[t])
       IN  IF isOpen /\ \A u \in Threads \ {t} : pc[u] # "send"
             THEN /\ queue' = Enqueue(queue, msg)
                  /\ sent' = Append(sent, msg)
                  /\ UNCHANGED refcount
             ELSE /\ refcount' = Release(refcount, p_el)
                  /\ UNCHANGED <<queue, sent>>
    /\ calls' = [calls EXCEPT ![cur[t]].tried = Append(@, i[t])]
    /\ i' = [i EXCEPT ![t] = @ + 1]
    /\ pc' = [pc EXCEPT ![t] = "loop"]
    /\ UNCHANGED <<isOpen, numSenders, sinkAlive, cur, stat, work, rx>>

(* tx.unbounded_send(Ok(wbemClassObject)): lines 84-87.  On an open channel
   the message is enqueued; otherwise the send fails and the message is
   dropped with the error, which releases the object.  Either way the loop
   goes on with the next slot. *)
indicate_send(t) ==
    /\ UNCHANGED env
    /\ pc[t] = "send"
    /\ LET p_el == apObjArray(t)[i[t] + 1]
           msg == Ok(p_el, cur[t], i[t])
       IN  IF isOpen
             THEN /\ queue' = Enqueue(queue, msg)
                  /\ sent' = Append(sent, msg)
                  /\ UNCHANGED refcount
             ELSE /\ refcount' = Release(refcount, p_el)
                  /\ UNCHANGED <<queue, sent>>
    /\ calls' = [calls EXCEPT ![cur[t]].tried = Append(@, i[t])]
    /\ i' = [i EXCEPT ![t] = @ + 1]
    /\ pc' = [pc EXCEPT ![t] = "loop"]
    /\ UNCHANGED <<isOpen, numSenders, sinkAlive, cur, stat, work, rx>>

----------------------------------------------------------------------------
(* QuerySink::set_status: lines 94-111 *)

set_status(t, lFlags, hResult, strParam, pObjParam) ==
    /\ UNCHANGED env
    /\ sinkAlive
    /\ Dispatch(t)
    /\ work' = work + 1
    /\ isOpen' = IF IsComplete(lFlags) THEN close_channel(isOpen) ELSE isOpen
    /\ numComplete' = numComplete + (IF lFlags = WBEM_STATUS_COMPLETE THEN 1 ELSE 0)
    /\ lastStatus' = <<[lFlags |-> lFlags, ret |-> WBEM_NO_ERROR,
                         at |-> Len(calls), seen |-> Len(observed),
                         open |-> isOpen]>>
    /\ UNCHANGED <<queue, numSenders, sinkAlive, refcount, calls, thr, rx, sent>>

----------------------------------------------------------------------------
(* The host releases its last reference to the sink while no call runs:
   the struct is dropped and its sender with it (lines 33-37). *)
sink_release ==
    /\ UNCHANGED env
    /\ sinkAlive
    /\ \A t \in Threads : pc[t] = "idle"
    /\ sinkAlive' = FALSE
    /\ numSenders' = numSenders - 1
    /\ isOpen' = OpenAfterSenderDrop(isOpen, numSenders)
    /\ UNCHANGED <<queue, refcount, calls, thr, stat, work, rx, sent>>

----------------------------------------------------------------------------
(* The receiver, as the test drives it (lines 155-165) *)

(* One poll of the receiver: a queued message is taken; an empty closed
   channel yields end-of-stream; an empty open channel leaves it waiting. *)
rx_next ==
    /\ UNCHANGED env
    /\ consumer \in {"ready", "awaiting"}
    /\ IF queue # <<>>
         THEN /\ observed' = Append(observed, Head(queue))
              /\ queue' = Tail(queue)
              /\ consumer' = "ready"
         ELSE /\ consumer' = IF isOpen THEN "awaiting" ELSE "ended"
              /\ UNCHANGED <<queue, observed>>
    /\ UNCHANGED <<isOpen, numSenders, sinkAlive, refcount, calls, thr, stat,
                   work, sent>>

(* Drop of the receiver: the channel is closed and drained, and every
   drained message releases its object. *)
rx_drop ==
    /\ UNCHANGED env
    /\ consumer # "dropped"
    /\ consumer' = "dropped"
    /\ isOpen' = FALSE
    /\ queue' = <<>>
    /\ refcount' = ReleaseAll(refcount, queue)
    /\ UNCHANGED <<numSenders, sinkAlive, calls, thr, stat, work, observed, sent>>

----------------------------------------------------------------------------
(* The engine gives up its own reference to an object; it does so only
   after the callbacks it passed the object to have returned.  Objects are
   interchangeable: the lowest-numbered one still referenced goes first. *)
engine_release(o) ==
    /\ engineRef[o]
    /\ \A p \in Objs : p < o => ~engineRef[p]
    /\ \A t \in Threads :
          pc[t] # "idle" => \A s \in DOMAIN apObjArray(t) : apObjArray(t)[s] # o
    /\ engineRef' = [engineRef EXCEPT ![o] = FALSE]
    /\ refcount' = Release(refcount, o)
    /\ UNCHANGED <<queue, isOpen, numSenders, sinkAlive, calls, thr, stat, work,
                   rx, sent, gone>>

(* The receiver destroys an item it has received *)
rx_item_drop(j) ==
    /\ j \in DOMAIN observed \ gone
    /\ gone' = gone \cup {j}
    /\ refcount' = Release(refcount, observed[j].obj)
    /\ UNCHANGED <<queue, isOpen, numSenders, sinkAlive, calls, thr, stat, work,
                   rx, sent, engineRef>>

(* The pointers the engine passes are objects it holds a reference to *)
Valid(n, a) == n > 0 => \A s \in DOMAIN a : a[s] # NULL => engineRef[a[s]]

(* The foreign engine calling from the threads ts within a budget *)
Engine(ts, budget) ==
    \/ \E t \in ts, n \in (-1)..budget : \E a \in Arrays(n) :
          work + Cost(n) <= budget /\ Valid(n, a) /\ indicate_enter(t, n, a)
    \/ \E t \in ts : indicate_loop(t)
    \/ \E t \in ts : indicate_send(t)
    \/ \E t \in ts, f \in Flags, h \in HResults, s \in BStrs, p \in Pointers :
          work + 1 <= budget /\ set_status(t, f, h, s, p)

Next ==
    \/ Engine(Threads, MaxWork)
    \/ sink_release
    \/ rx_next
    \/ rx_drop

Spec == Init /\ [][Next]_vars

(* The engine calling from a single thread *)
SeqNext ==
    \/ Engine({1}, MaxSeqWork)
    \/ sink_release
    \/ rx_next
    \/ rx_drop

SeqSpec == Init /\ [][SeqNext]_vars

(* One engine thread; the engine releases objects after its calls and the
   receiver destroys items *)
LifeNext ==
    \/ Engine({1}, MaxLifeWork)
    \/ sink_release
    \/ rx_next
    \/ rx_drop
    \/ \E o \in Objs : engine_release(o)
    \/ \E j \in 1..MaxLifeWork : rx_item_drop(j)

LifeSpec == Init /\ [][LifeNext]_vars

(* Races: Indicate calls on all threads, SetStatus with the completion
   flag, the receiver polling and being dropped.  Which object a slot points
   to plays no part in the order of the messages or in the close, so a slot
   is empty or points to object 1. *)
RaceArrays(n) == [1..n -> {NULL, 1}]

RaceNext ==
    \/ \E t \in Threads, n \in 1..MaxRaceWork : \E a \in RaceArrays(n) :
          work + Cost(n) <= MaxRaceWork /\ Valid(n, a) /\ indicate_enter(t, n, a)
    \/ \E t \in Threads : indicate_loop(t)
    \/ \E t \in Threads : indicate_send(t)
    \/ \E t \in Threads :
          work + 1 <= MaxRaceWork
          /\ set_status(t, WBEM_STATUS_COMPLETE, WBEM_NO_ERROR, "", NULL)
    \/ rx_next
    \/ rx_drop

RaceSpec == Init /\ [][RaceNext]_vars

(* An engine thread that keeps running: inside Indicate it goes on to its
   next step.  Nothing is assumed of the receiver. *)
FairEngineSpec == SeqSpec /\ WF_vars(indicate_loop(1) \/ indicate_send(1))

(* A receiver that keeps polling *)
FairSeqSpec == SeqSpec /\ WF_vars(rx_next)

----------------------------------------------------------------------------
(* Vocabulary of the properties *)

NonNull(a) == \A s \in DOMAIN a : a[s] # NULL

(* 0-based index of the first empty slot of a; Len(a) when there is none *)
FirstNull(a) ==
    IF NonNull(a) THEN Len(a)
    ELSE (CHOOSE s \in DOMAIN a : a[s] = NULL /\ \A r \in 1..(s - 1) : a[r] # NULL) - 1

(* The messages of call k among ms, in the order they have there *)
ItemsOf(ms, k) == SelectSeq(ms, LAMBDA m : m.call = k)

(* Ok items of slots 0..n-1 of call k, in slot order *)
Batch(k, n) == [s \in 1..n |-> Ok(calls[k].arr[s], k, s - 1)]

(* The slot indices 0..n-1 in order *)
Slots(n) == [s \in 1..n |-> s - 1]

(* All the receiver has got or can get without waiting *)
Available == observed \o queue

Delivering(k) == calls[k].count > 0
Returned(k) == calls[k].done

----------------------------------------------------------------------------
(* C1: a returned Indicate call with count > 0 and no empty slot, on a
   channel that is (still) open, so that the receiver exists, returned
   WBEM_NO_ERROR and enqueued exactly its count slots as Ok items, one per
   slot, in slot order; each of them has been received or is in the queue,
   in that order. *)
C1_FullBatchDelivered ==
    \A k \in DOMAIN calls :
        (Returned(k) /\ Delivering(k) /\ NonNull(calls[k].arr) /\ isOpen)
        => /\ calls[k].ret = WBEM_NO_ERROR
           /\ ItemsOf(sent, k) = Batch(k, calls[k].count)
           /\ ItemsOf(Available, k) = Batch(k, calls[k].count)

C1_Witness ==
    \E k \in DOMAIN calls :
        /\ Returned(k) /\ calls[k].count = 2 /\ NonNull(calls[k].arr) /\ isOpen
        /\ calls[k].arr[1] # calls[k].arr[2]
        /\ ItemsOf(observed, k) = Batch(k, 2)

(* C2 as stated: a returned call whose first empty slot is at index i has
   returned E_POINTER, has enqueued exactly the items of slots 0..i-1 in
   slot order, and has cloned no slot from i on. *)
C2_AsStated ==
    \A k \in DOMAIN calls :
        (Returned(k) /\ Delivering(k) /\ ~NonNull(calls[k].arr))
        => /\ calls[k].ret = E_POINTER
           /\ ItemsOf(sent, k) = Batch(k, FirstNull(calls[k].arr))
           /\ calls[k].cloned = Slots(FirstNull(calls[k].arr))

(* C2, amended: such a call has returned E_POINTER, has cloned and tried to
   send exactly the slots 0..i-1, in slot order, and nothing from slot i
   on; on a channel that is still open these i items are exactly what it
   enqueued, and in every case what it enqueued are items of slots below
   i. *)
C2_TruncatedBatch ==
    \A k \in DOMAIN calls :
        (Returned(k) /\ Delivering(k) /\ ~NonNull(calls[k].arr))
        => LET n == FirstNull(calls[k].arr) IN
           /\ calls[k].ret = E_POINTER
           /\ calls[k].cloned = Slots(n)
           /\ calls[k].tried = Slots(n)
           /\ isOpen => ItemsOf(sent, k) = Batch(k, n)
           /\ \A j \in DOMAIN sent :
                 sent[j].call = k => sent[j] \in {Batch(k, n)[s] : s \in 1..n}

(* deliver-batch(3, [A, <empty>, C]): the receiver got [A], and no more *)
C2_Witness ==
    \E k \in DOMAIN calls :
        /\ Returned(k) /\ calls[k].count = 3 /\ isOpen
        /\ calls[k].arr[1] # NULL /\ calls[k].arr[2] = NULL
        /\ calls[k].arr[3] \notin {NULL, calls[k].arr[1]}
        /\ calls[k].ret = E_POINTER
        /\ observed = Batch(k, 1) /\ queue = <<>>

(* C3: an Indicate call with count <= 0 returns WBEM_NO_ERROR in its entry
   step and changes nothing: no slot is cloned or sent, the queue, the
   channel's state, the sender count and every reference count stay as
   they were, and no thread moves. *)
C3_NothingToDeliver ==
    [][(Len(calls') = Len(calls) + 1 /\ calls'[Len(calls')].count <= 0)
        => /\ calls'[Len(calls')].done
           /\ calls'[Len(calls')].ret = WBEM_NO_ERROR
           /\ calls'[Len(calls')].cloned = <<>>
           /\ calls'[Len(calls')].tried = <<>>
           /\ UNCHANGED <<queue, isOpen, numSenders, sinkAlive, refcount, cur,
                          pc, i, consumer, observed, sent>>]_vars

C3_Witness ==
    /\ Len(calls) = 2
    /\ calls[1].count = 1 /\ calls[2].count <= 0
    /\ Returned(2) /\ calls[2].ret = WBEM_NO_ERROR
    /\ queue = Batch(1, 1)

(* C4: once SetStatus has been called with WBEM_STATUS_COMPLETE, a receiver
   that keeps polling (and is not dropped) reaches end-of-stream, having
   received, as Ok items, every message that was enqueued. *)
C4_EndOfStream ==
    (numComplete > 0)
    ~> \/ consumer = "dropped"
       \/ /\ consumer = "ended"
          /\ observed = sent
          /\ \A j \in DOMAIN observed : observed[j].ok

(* the receiver is waiting on the empty channel when the close happens *)
C4_Witness ==
    /\ consumer = "awaiting" /\ numComplete = 1 /\ ~isOpen
    /\ lastStatus[1].open /\ lastStatus[1].seen = 1
    /\ observed = sent /\ Len(sent) = 1

(* The batches of calls 1..n, one after the other *)
RECURSIVE AllBatches(_)
AllBatches(n) ==
    IF n = 0 THEN <<>>
    ELSE AllBatches(n - 1)
            \o (IF Delivering(n) THEN Batch(n, calls[n].count) ELSE <<>>)

(* C5: when one engine thread has made Indicate calls without empty slots
   one after another, all on the open channel, and then SetStatus with
   WBEM_STATUS_COMPLETE, a receiver that has reached end-of-stream has
   received exactly the batches in call order, each in slot order. *)
C5_BatchesInCallOrder ==
    ( /\ consumer = "ended"
      /\ numComplete > 0
      /\ \A k \in DOMAIN calls :
            /\ calls[k].t = 1 /\ Returned(k) /\ calls[k].open
            /\ Delivering(k) => NonNull(calls[k].arr) )
    => observed = AllBatches(Len(calls))

C5_Witness ==
    /\ consumer = "ended" /\ numComplete = 1
    /\ Len(calls) = 2
    /\ \A k \in DOMAIN calls :
          calls[k].open /\ calls[k].count = 1 /\ NonNull(calls[k].arr)
    /\ calls[1].arr # calls[2].arr
    /\ observed = Batch(1, 1) \o Batch(2, 1)

(* Number of messages among ms that carry slot s of call k *)
Copies(ms, k, s) == Cardinality({j \in DOMAIN ms : ms[j].call = k /\ ms[j].slot = s})

RECURSIVE TotalItems(_)
TotalItems(n) ==
    IF n = 0 THEN 0 ELSE TotalItems(n - 1) + (IF Delivering(n) THEN calls[n].count ELSE 0)

(* C6: while the channel is open, whatever the interleaving of the calls
   of the engine's threads, every slot of a returned call without empty
   slots is available to the receiver exactly once, with its object; and
   when all calls have returned and none had an empty slot, the receiver
   has or can take exactly the T items delivered. *)
C6_NoLossNoDuplication ==
    isOpen =>
      /\ \A k \in DOMAIN calls :
            (Returned(k) /\ Delivering(k) /\ NonNull(calls[k].arr))
            => \A s \in 1..calls[k].count :
                  /\ Copies(Available, k, s - 1) = 1
                  /\ \E j \in DOMAIN Available : Available[j] = Batch(k, calls[k].count)[s]
      /\ (\A k \in DOMAIN calls :
              Returned(k) /\ (Delivering(k) => NonNull(calls[k].arr)))
         => Len(Available) = TotalItems(Len(calls))

(* two calls on two threads at once; the later call's send came first *)
C6_Witness ==
    /\ isOpen /\ Len(calls) = 2
    /\ calls[1].t = 1 /\ calls[2].t = 2
    /\ \A k \in DOMAIN calls : Returned(k) /\ calls[k].count = 1 /\ NonNull(calls[k].arr)
    /\ observed = Batch(2, 1) \o Batch(1, 1)

ExpectedStatus(c) ==
    IF c.count <= 0 \/ NonNull(c.arr) THEN WBEM_NO_ERROR ELSE E_POINTER

(* C7: whatever the receiver's state, in particular after it has been
   dropped, a thread inside Indicate can always take its next step, every
   returned Indicate call has returned the status its arguments alone
   determine (WBEM_NO_ERROR for count <= 0 or no empty slot, E_POINTER for
   an empty slot), and SetStatus has returned WBEM_NO_ERROR. *)
C7_StatusWithoutConsumer ==
    /\ \A t \in Threads :
          pc[t] # "idle" => ENABLED (indicate_loop(t) \/ indicate_send(t))
    /\ \A k \in DOMAIN calls : Returned(k) => calls[k].ret = ExpectedStatus(calls[k])
    /\ lastStatus # <<>> => lastStatus[1].ret = WBEM_NO_ERROR

(* the receiver was dropped first; then Indicate(2, [A, <empty>]) failed to
   send A and returned E_POINTER, and SetStatus(complete) returned *)
C7_Witness ==
    /\ consumer = "dropped" /\ numComplete = 1 /\ sent = <<>>
    /\ Len(calls) = 1 /\ Returned(1) /\ ~calls[1].open
    /\ calls[1].count = 2 /\ calls[1].arr[1] # NULL /\ calls[1].arr[2] = NULL
    /\ calls[1].tried = <<0>> /\ calls[1].ret = E_POINTER
    /\ lastStatus[1].at = 1 /\ ~lastStatus[1].open
    /\ lastStatus[1].ret = WBEM_NO_ERROR

(* Slots of call k before its first empty slot that refer to object o *)
Referring(k, o) ==
    Cardinality({s \in 1..FirstNull(calls[k].arr) : calls[k].arr[s] = o})

RECURSIVE TotalReferring(_, _)
TotalReferring(n, o) ==
    IF n = 0 THEN 0
    ELSE TotalReferring(n - 1, o) + (IF Delivering(n) THEN Referring(n, o) ELSE 0)

(* Items that exist and refer to o: enqueued ones and those being sent *)
Items(o) ==
    Cardinality({j \in DOMAIN sent : sent[j].obj = o})
    + Cardinality({t \in Threads : pc[t] = "send" /\ apObjArray(t)[i[t] + 1] = o})

IsPrefix(a, b) == Len(a) <= Len(b) /\ a = SubSeq(b, 1, Len(a))

(* C8: every slot an Indicate call processes is cloned once and then sent
   once, in slot order; a returned call has done so for exactly the slots
   before its first empty slot.  While the channel is open, each object's
   reference count is its initial value plus one per item made from it;
   when all calls have returned it exceeds the initial value by the number
   of processed slots that referred to it, over all calls, concurrent or
   not; and right after a call that ran alone it exceeds its value at the
   call's entry by the number of that call's slots referring to it. *)
C8_OneIncrementPerSlot ==
    /\ \A k \in DOMAIN calls :
          /\ IsPrefix(calls[k].cloned, Slots(Len(calls[k].arr)))
          /\ IsPrefix(calls[k].tried, calls[k].cloned)
          /\ Len(calls[k].cloned) <= Len(calls[k].tried) + 1
          /\ (Returned(k) /\ Delivering(k))
             => /\ calls[k].cloned = Slots(FirstNull(calls[k].arr))
                /\ calls[k].tried = calls[k].cloned
    /\ isOpen =>
         \A o \in Objs :
            /\ refcount[o] = InitialRefcount + Items(o)
            /\ (\A k \in DOMAIN calls : Returned(k))
               => refcount[o] = InitialRefcount + TotalReferring(Len(calls), o)
            /\ (\A k \in DOMAIN calls : Returned(k) /\ calls[k].t = 1)
               => \A k \in DOMAIN calls :
                     (k = Len(calls) /\ Delivering(k))
                     => refcount[o] = calls[k].rc[o] + Referring(k, o)

(* the same object delivered by two calls running at once *)
C8_Witness ==
    /\ isOpen /\ Len(calls) = 2
    /\ calls[1].t = 1 /\ calls[2].t = 2
    /\ \A k \in DOMAIN calls : Returned(k) /\ calls[k].arr = <<1>>
    /\ calls[2].rc[1] = InitialRefcount + 1
    /\ refcount[1] = InitialRefcount + 2

(* A step that is a SetStatus call *)
StatusStep == work' = work + 1 /\ calls' = calls

(* C9: every SetStatus call returns WBEM_NO_ERROR, whatever its
   parameters; with WBEM_STATUS_COMPLETE as lFlags it leaves the channel
   closed, with any other lFlags it leaves the channel's state as it was;
   in both cases the queue, the reference counts, the sender count and the
   threads are untouched. *)
C9_StatusClosesOnlyOnComplete ==
    [][StatusStep
        => /\ lastStatus'[1].ret = WBEM_NO_ERROR
           /\ lastStatus'[1].lFlags = WBEM_STATUS_COMPLETE => ~isOpen'
           /\ lastStatus'[1].lFlags # WBEM_STATUS_COMPLETE => isOpen' = isOpen
           /\ UNCHANGED <<queue, numSenders, sinkAlive, refcount, cur, pc, i,
                          consumer, observed, sent>>]_vars

(* SetStatus with another flag between two deliveries: the channel is open,
   the first item is still queued and the second was enqueued behind it *)
C9_Witness ==
    /\ isOpen /\ numComplete = 0
    /\ lastStatus # <<>> /\ lastStatus[1].at = 1
    /\ lastStatus[1].lFlags # WBEM_STATUS_COMPLETE
    /\ Len(calls) = 2 /\ Returned(2)
    /\ queue = Batch(1, 1) \o Batch(2, 1)

(* C10: a SetStatus call with WBEM_STATUS_COMPLETE on a sink that has had
   one before returns WBEM_NO_ERROR and changes nothing: the channel stays
   closed and the queue as it was; and a receiver that has reached
   end-of-stream receives nothing more. *)
C10_CompleteTwice ==
    [][/\ (StatusStep /\ numComplete >= 1 /\ numComplete' = numComplete + 1)
          => /\ lastStatus'[1].ret = WBEM_NO_ERROR
             /\ ~isOpen /\ ~isOpen'
             /\ UNCHANGED <<queue, numSenders, sinkAlive, refcount, cur, pc, i,
                            consumer, observed, sent>>
       /\ consumer = "ended"
          => /\ consumer' \in {"ended", "dropped"}
             /\ observed' = observed]_vars

(* an item queued before the first close is received after the second *)
C10_Witness ==
    /\ numComplete = 2 /\ consumer = "ended"
    /\ lastStatus[1].seen = 0 /\ ~lastStatus[1].open
    /\ Len(observed) = 1 /\ observed = sent

(* References the engine itself holds on object o *)
EngineRefs(o) == IF engineRef[o] THEN InitialRefcount ELSE 0

(* Items that exist and refer to o: being sent, queued, held by the receiver *)
InFlight(o) ==
    Cardinality({t \in Threads : pc[t] = "send" /\ apObjArray(t)[i[t] + 1] = o})
Queued(o) == Cardinality({j \in DOMAIN queue : queue[j].obj = o})
Held(o) == Cardinality({j \in DOMAIN observed \ gone : observed[j].obj = o})
Live(o) == InFlight(o) + Queued(o) + Held(o)

(* The message was made from slot m.slot of call m.call, by a clone that
   the call has logged *)
ClonedInCall(m) ==
    /\ m.call \in DOMAIN calls
    /\ m.slot + 1 \in DOMAIN calls[m.call].arr
    /\ calls[m.call].arr[m.slot + 1] = m.obj
    /\ \E s \in DOMAIN calls[m.call].cloned : calls[m.call].cloned[s] = m.slot

(* C11: every item that exists, whether being sent by the sink, queued or
   held by the receiver, was made by a clone inside the Indicate call that
   was passed the pointer, and an item still in the sink's hands belongs to
   a call that has not returned.  Each object's reference count is the
   engine's own references plus one per item that exists and refers to it:
   it is at least the number of those items, and it stays positive after
   the engine has released its own reference for as long as one exists. *)
C11_ItemsBackedByIncrement ==
    /\ \A o \in Objs :
          /\ refcount[o] = EngineRefs(o) + Live(o)
          /\ refcount[o] >= Live(o)
          /\ Live(o) > 0 => refcount[o] > 0
    /\ \A j \in DOMAIN queue : ClonedInCall(queue[j])
    /\ \A j \in DOMAIN observed \ gone : ClonedInCall(observed[j])
    /\ \A t \in Threads :
          pc[t] = "send"
          => /\ ~Returned(cur[t])
             /\ ClonedInCall(Ok(apObjArray(t)[i[t] + 1], cur[t], i[t]))
    /\ \A k \in DOMAIN calls : Returned(k) => \A t \in Threads : cur[t] # k

(* two items of one object received, the first destroyed by the receiver,
   the engine's reference released: the second item keeps the object *)
C11_Witness ==
    /\ Len(observed) = 2 /\ gone = {1}
    /\ observed[2].obj = 1
    /\ ~engineRef[1]
    /\ refcount[1] = 1
    /\ Returned(1)

(* Every send call k has attempted put its message in the channel once *)
AllAttemptsEnqueued(k) ==
    \A s \in DOMAIN calls[k].tried : Copies(sent, k, calls[k].tried[s]) = 1

(* C12 as stated: while the receiver has not been dropped, every send
   attempted by an Indicate call has succeeded and its message is queued or
   received. *)
C12_AsStated ==
    consumer # "dropped"
    => \A k \in DOMAIN calls :
          /\ AllAttemptsEnqueued(k)
          /\ \A s \in DOMAIN calls[k].tried :
                Copies(Available, k, calls[k].tried[s]) = 1

(* C12: a send never waits, and it fails only on a closed channel: while
   the channel is open every send attempted by an Indicate call has
   succeeded, and while the receiver has not been dropped every message
   enqueued is queued or has been received. *)
C12_SendFailsOnlyWhenClosed ==
    /\ \A t \in Threads : pc[t] = "send" => ENABLED indicate_send(t)
    /\ isOpen => \A k \in DOMAIN calls : AllAttemptsEnqueued(k)
    /\ consumer # "dropped" => Available = sent

(* two sends succeeded with the receiver not polling: both are queued *)
C12_Witness ==
    /\ isOpen /\ consumer = "ready" /\ observed = <<>>
    /\ Len(calls) = 1 /\ Returned(1)
    /\ calls[1].tried = <<0, 1>>
    /\ queue = Batch(1, 2) /\ sent = queue

(* C13: an Indicate call made on a channel that is already closed, as it is
   after a SetStatus call with WBEM_STATUS_COMPLETE, puts nothing in the
   channel: none of its items is enqueued or received.  It still processes
   every slot before its first empty slot and returns WBEM_NO_ERROR when no
   slot is empty (E_POINTER otherwise).  A receiver that has reached
   end-of-stream has received exactly what was enqueued before the close. *)
C13_DeliveryAfterClose ==
    /\ \A k \in DOMAIN calls :
          (Delivering(k) /\ ~calls[k].open)
          => /\ ItemsOf(sent, k) = <<>>
             /\ ItemsOf(Available, k) = <<>>
             /\ Returned(k)
                => /\ calls[k].tried = Slots(FirstNull(calls[k].arr))
                   /\ calls[k].ret = ExpectedStatus(calls[k])
                   /\ NonNull(calls[k].arr) => calls[k].ret = WBEM_NO_ERROR
    /\ consumer = "ended" => observed = sent /\ queue = <<>>

(* one item delivered, completion reported, a second delivery dropped: the
   receiver gets the first item and then end-of-stream *)
C13_Witness ==
    /\ numComplete = 1 /\ lastStatus[1].at = 1
    /\ Len(calls) = 2 /\ Returned(2)
    /\ calls[2].count = 1 /\ NonNull(calls[2].arr)
    /\ ~calls[2].open /\ calls[2].tried = <<0>>
    /\ calls[2].ret = WBEM_NO_ERROR
    /\ consumer = "ended" /\ observed = Batch(1, 1)

(* Slots of call k whose send failed *)
FailedSlots(k) ==
    {calls[k].tried[s] : s \in DOMAIN calls[k].tried} \
    {sent[j].slot : j \in {h \in DOMAIN sent : sent[h].call = k}}

(* C14: a send that fails in the middle of a batch neither ends the call
   nor changes its status.  A call with a failed send that is still running
   stands right behind the slots it has tried, none skipped; once returned
   it has cloned and tried every slot before its first empty slot, in slot
   order, and has returned E_POINTER if a slot is empty and WBEM_NO_ERROR
   otherwise. *)
C14_FailedSendDoesNotAbort ==
    \A k \in DOMAIN calls :
       FailedSlots(k) # {}
       => /\ ~Returned(k)
             => \E t \in Threads :
                   /\ cur[t] = k /\ pc[t] \in {"loop", "send"}
                   /\ calls[k].tried = Slots(i[t])
                   /\ calls[k].cloned =
                        Slots(IF pc[t] = "send" THEN i[t] + 1 ELSE i[t])
          /\ Returned(k)
             => /\ calls[k].cloned = Slots(FirstNull(calls[k].arr))
                /\ calls[k].tried = calls[k].cloned
                /\ calls[k].ret = ExpectedStatus(calls[k])

(* Indicate(3, [A, B, <empty>]): A was enqueued, the receiver was dropped,
   the send of B failed, and the call went on to the empty slot *)
C14_Witness ==
    /\ Len(calls) = 1 /\ Returned(1)
    /\ calls[1].count = 3 /\ FirstNull(calls[1].arr) = 2
    /\ sent = Batch(1, 1)
    /\ FailedSlots(1) = {1}
    /\ calls[1].tried = <<0, 1>>
    /\ calls[1].ret = E_POINTER
    /\ consumer = "dropped"

(* C15: Indicate and SetStatus never wait for the receiver.  An Indicate
   call takes at most one clone and one send per slot of its count, a
   thread inside a call can always take its next step, and every call that
   has started returns, whatever the receiver does: polling, not polling
   or dropped.  Only the receiver waits, and only when it polls a channel
   that is empty and open. *)
C15_CallsReturn ==
    /\ [](\A k \in DOMAIN calls :
             /\ Len(calls[k].cloned) <= Cost(calls[k].count)
             /\ Len(calls[k].tried) <= Len(calls[k].cloned)
             /\ ~Delivering(k) => Returned(k) /\ calls[k].cloned = <<>>)
    /\ [](\A t \in Threads :
             pc[t] # "idle" => ENABLED (indicate_loop(t) \/ indicate_send(t)))
    /\ [][(consumer # "awaiting" /\ consumer' = "awaiting")
             => queue = <<>> /\ isOpen]_vars
    /\ \A t \in Threads : (pc[t] # "idle") ~> (pc[t] = "idle")

(* the receiver polled the empty channel and waits; Indicate(3, ..) has
   returned meanwhile and its three items are queued *)
C15_Witness ==
    /\ Len(calls) = 1 /\ Returned(1)
    /\ calls[1].tried = <<0, 1, 2>>
    /\ consumer = "awaiting" /\ observed = <<>>
    /\ Len(queue) = 3

(* The messages of each thread stand in ms in that thread's own order: by
   call, and by slot within a call *)
ThreadOrdered(ms) ==
    \A a, b \in DOMAIN ms :
       (a < b /\ calls[ms[a].call].t = calls[ms[b].call].t)
       => \/ ms[a].call < ms[b].call
          \/ ms[a].call = ms[b].call /\ ms[a].slot < ms[b].slot

(* C16: with Indicate calls running at once on several threads, the channel
   holds one sequence of messages, the receiver gets a prefix of it, and in
   it the items of each single thread stand in that thread's own order:
   call order, and slot order within a call. *)
C16_PerThreadOrder ==
    /\ IsPrefix(observed, sent)
    /\ consumer # "dropped" => Available = sent
    /\ ThreadOrdered(sent)
    /\ ThreadOrdered(observed)
    /\ \A k \in DOMAIN calls : IsPrefix(calls[k].tried, Slots(Len(calls[k].arr)))

(* thread 2's item was received between the two items of thread 1's call *)
C16_Witness ==
    /\ Len(calls) = 2 /\ calls[1].t = 1 /\ calls[2].t = 2
    /\ observed = <<Ok(1, 1, 0), Ok(1, 2, 0), Ok(1, 1, 1)>>

(* C17: no reference is leaked when a send fails.  Every count is the
   initial one plus one per item that exists (being sent, queued, held by
   the receiver): the item of a failed send has been released.  After an
   Indicate call on a closed channel has returned, with nothing drained from
   the queue meanwhile, every count is what it was when the call was
   entered.  Dropping the receiver empties the queue and releases the
   queued items: the counts then cover only the items the receiver took
   and those being sent. *)
C17_NoLeakOnFailedSend ==
    /\ \A o \in Objs :
          refcount[o] = InitialRefcount + InFlight(o) + Queued(o) + Held(o)
    /\ \A k \in DOMAIN calls :
          (/\ k = Len(calls) /\ Returned(k) /\ Delivering(k)
           /\ ~calls[k].open /\ Available = sent)
          => refcount = calls[k].rc
    /\ consumer = "dropped"
       => /\ queue = <<>>
          /\ \A o \in Objs :
                refcount[o] = InitialRefcount + InFlight(o) + Held(o)

(* the receiver was dropped; then Indicate(3, [A, A, B]) cloned three items,
   failed to send each and returned with the counts as they were *)
C17_Witness ==
    /\ consumer = "dropped" /\ sent = <<>>
    /\ Len(calls) = 1 /\ Returned(1)
    /\ calls[1].arr = <<1, 1, 2>>
    /\ calls[1].cloned = <<0, 1, 2>> /\ FailedSlots(1) = {0, 1, 2}
    /\ refcount = calls[1].rc
    /\ \A o \in Objs : refcount[o] = InitialRefcount

(* The message is an Ok element holding an item made from a slot that was
   not empty *)
IsOkItem(m) ==
    /\ m.ok
    /\ m.obj \in Objs
    /\ m.call \in DOMAIN calls
    /\ m.slot + 1 \in DOMAIN calls[m.call].arr
    /\ calls[m.call].arr[m.slot + 1] = m.obj

(* C18: the sink never puts an error element in the channel: every element
   enqueued, queued or received is Ok(item).  A call that met an empty slot
   shows it only in its return value E_POINTER: of such a call the channel
   holds items of the slots before the empty one and nothing for the empty
   slot or after it, as it would of a call with that shorter array. *)
C18_OnlyOkElements ==
    /\ \A j \in DOMAIN sent : IsOkItem(sent[j])
    /\ \A j \in DOMAIN queue : IsOkItem(queue[j])
    /\ \A j \in DOMAIN observed : IsOkItem(observed[j])
    /\ \A k \in DOMAIN calls :
          (Returned(k) /\ calls[k].ret = E_POINTER)
          => /\ ~NonNull(calls[k].arr)
             /\ \A j \in DOMAIN sent :
                   sent[j].call = k => sent[j].slot < FirstNull(calls[k].arr)
             /\ isOpen => ItemsOf(sent, k) = Batch(k, FirstNull(calls[k].arr))

(* Indicate(2, [A, <empty>]) returned E_POINTER; after completion the
   receiver got Ok(A) and then end-of-stream, nothing about the empty slot *)
C18_Witness ==
    /\ Len(calls) = 1 /\ Returned(1)
    /\ calls[1].count = 2 /\ FirstNull(calls[1].arr) = 1
    /\ calls[1].ret = E_POINTER
    /\ numComplete = 1 /\ consumer = "ended"
    /\ Len(observed) = 1 /\ observed[1].ok /\ observed[1].slot = 0

(* C19: a sink that is destroyed without SetStatus ever having passed the
   completion flag ends the stream.  The clone of the sender that a call
   makes is dropped when the call returns, so once the sink is destroyed,
   which happens while no call is running, no sender is left and the channel
   is closed; a receiver that keeps polling then gets what is queued and
   after it end-of-stream. *)
C19_EndWithoutCompletion ==
    /\ [](numSenders = (IF sinkAlive THEN 1 ELSE 0)
                       + Cardinality({t \in Threads : pc[t] # "idle"}))
    /\ [](~sinkAlive => numSenders = 0 /\ ~isOpen)
    /\ (~sinkAlive /\ numComplete = 0)
          ~> (consumer = "dropped" \/ (consumer = "ended" /\ observed = sent))

(* three items were delivered, the sink was destroyed with completion never
   reported, and the receiver got the three items and then end-of-stream *)
C19_Witness ==
    /\ ~sinkAlive /\ numComplete = 0
    /\ \A k \in DOMAIN calls : Returned(k)
    /\ consumer = "ended"
    /\ Len(observed) = 3 /\ observed = sent

(* C20: when an Indicate call races with SetStatus passing the completion
   flag or with the drop of the receiver, in every interleaving (a) a
   closed channel stays closed, and a receiver that has got end-of-stream
   has got everything that was enqueued and gets nothing afterwards, as
   nothing is enqueued any more; (b) the items of any one call that were
   enqueued are those of the first slots of its array, in slot order, all
   before its first empty slot, and the receiver has got a prefix of them:
   after one send of a call has failed no later slot of it is delivered. *)
C20_RaceWithClose ==
    /\ [](consumer = "ended" => ~isOpen /\ queue = <<>> /\ observed = sent)
    /\ [][/\ ~isOpen => ~isOpen'
          /\ consumer = "ended" => observed' = observed /\ sent' = sent]_vars
    /\ [](\A k \in DOMAIN calls :
             LET got == ItemsOf(sent, k) IN
             /\ Len(got) <= FirstNull(calls[k].arr)
             /\ got = Batch(k, Len(got))
             /\ IsPrefix(ItemsOf(observed, k), got)
             /\ FailedSlots(k) # {}
                => \A s \in FailedSlots(k) : s >= Len(got))

(* SetStatus(complete) on thread 2 came between the two sends of
   Indicate(2, [A, A]) on thread 1: the first item was enqueued and
   received, the second send failed, and the receiver got end-of-stream *)
C20_Witness ==
    /\ Len(calls) = 1 /\ Returned(1)
    /\ calls[1].count = 2 /\ NonNull(calls[1].arr)
    /\ calls[1].open /\ numComplete = 1
    /\ lastStatus[1].at = 1 /\ lastStatus[1].open
    /\ sent = Batch(1, 1) /\ FailedSlots(1) = {1}
    /\ consumer = "ended" /\ observed = sent

====
